---- MODULE Spec2Model ----
(***************************************************************************)
(* A model of lg_common's AdhocBrowserPool                                 *)
(* (src/lg_common/src/lg_common/adhoc_browser_pool.py): the pool of        *)
(* browsers of one viewport, self.browsers, and handle_ros_message, which  *)
(* reconciles the pool with a snapshot (an AdhocBrowsers message) under    *)
(* self.lock.  rospy runs the subscriber callback on the threads of the    *)
(* topic's connections, so two calls may contend for the lock.             *)
(*                                                                         *)
(* Spec is the pool with two callback threads.  SpecService adds the       *)
(* thread of process_service_request, SpecViewports the pool of another    *)
(* viewport, FairSpec the scheduling of the threads; SpecOvertaken,        *)
(* SpecOverwritten and SpecCloseRaised are Spec with one more history      *)
(* kept, and so is SpecDropped.                                           *)
(*                                                                         *)
(* The other specifications run what the pool's call does not reach:       *)
(* SpecUrls the url functions on urls and ids of their own, SpecUpdate     *)
(* _update_browser, SpecDirector the subscribers of /director/scene        *)
(* (lg_common's SceneListener, lg_media's ImageViewer), SpecImageViewer    *)
(* ImageViewer.handle_image_views, SpecAttractLoop lg_attract_loop's       *)
(* AttractLoop with its timer thread and its activity subscriber.          *)
(*                                                                         *)
(* Strings are sequences of atoms: "&" and "?" are atoms of their own and  *)
(* no other atom holds one of them, so the regular expression of           *)
(* _partition_existing_browser_ids is computed on the atoms as re.sub      *)
(* computes it on the characters.                                          *)
(***************************************************************************)
EXTENDS Integers, Sequences, FiniteSets, TLC

\* ------------------------------------------------------------- bounds
\* The longest snapshot (data.browsers) a message carries.
MaxLen == 2
\* The number of ManagedAdhocBrowser objects constructed in one behaviour.
MaxInstances == 3
\* The longest url the url functions are called with, in atoms.
MaxUrlLen == 3
\* The number of ticks in a row that only count scene_timer down below 0.
MaxIdleTicks == 2

\* ------------------------------------------------------------- inputs
\* The threads rospy runs the subscriber callback on.
Threads == {"t1", "t2"}

\* AdhocBrowser.id
Ids == {"a", "b"}

\* AdhocBrowser.url: one without a query string, one with.
Urls == {<<"http://x">>, <<"http://y", "?", "q=1">>}

\* lg_common.msg.WindowGeometry(x=, y=, width=, height=)
WindowGeometry(x, y, width, height) ==
    [x |-> x, y |-> y, width |-> width, height |-> height]

\* AdhocBrowser.geometry
Geoms == {WindowGeometry(0, 0, 100, 100), WindowGeometry(10, 20, 200, 300)}

\* lg_common.msg.AdhocBrowser
Items == [id : Ids, url : Urls, geometry : Geoms]

\* lg_common.msg.AdhocBrowsers.browsers: an array of AdhocBrowser
Snapshots == UNION {[1..n -> Items] : n \in 0..MaxLen}

\* The empty dict {}.
EmptyDict == [i \in {} |-> i]

\* No message, no call.
NoMsg == [none |-> TRUE]

\* No url: the function has not returned one.
NoUrl == <<>>

\* ------------------------------------------------------------- state
VARIABLES
    browsers,              \* self.browsers: dict id -> ManagedAdhocBrowser
    lock,                  \* self.lock is held
    pc,                    \* each thread's place in handle_ros_message
    snapshot_ids,          \* history: the ids of data.browsers of the call
    incoming_browsers,     \* local of handle_ros_message, per thread
    existing_ids,          \* local of handle_ros_message, per thread
    fresh_ids,             \* the fresh ids the second loop has yet to visit
    current_browsers_ids,  \* the current ids the first loop has yet to visit
    nextHandle,            \* the number of the next object constructed
    closed,                \* the objects whose close() has returned
    close_raised,          \* the objects of the pool whose close() has raised
    dropped,               \* the objects constructed whose set_state() has raised
    start,                 \* history: self.browsers when the call took the lock
    overwritten,           \* history: the ids data.browsers gives more than one
                           \* item for, each with the last of its items
    log,                   \* history: the close/del/create steps of the call
    repeat,                \* history: the call is a repeat of the call before
    released,              \* history: self.browsers when the lock was last released
    overtaken,             \* history: the pool has changed since the call was issued
    service_pc,            \* the service thread's place in process_service_request
    histories,             \* the optional histories the behaviour keeps
    other_lock,            \* self.lock of another viewport's pool is held
    other_pc,              \* that pool's callback thread's place
    other_browsers,        \* the ids of self.browsers of that pool
    director_msg,          \* the message /director/scene delivers
    pending,               \* the subscribers of /director/scene yet to handle it
    scene_callback,        \* history: the last call of SceneListener's callback
    image_views,           \* the last message published on /image/views
    master,                \* ImageViewer.master
    arg_url,               \* the url _add_ros_instance_url_param is called with
    arg_id,                \* the id _get_ros_instance_id is called with
    injected_url,          \* what _add_ros_instance_url_param returned
    stripped_url,          \* what re.sub made of the returned url
    update,                \* history: the last call of _update_browser
    current_images,        \* ImageViewer.current_images: the tracked images, each
                           \* with its process
    image_started,         \* the image processes set to STARTED and VISIBLE
    image_stopped,         \* the image processes set to STOPPED
    nextImage,             \* the number of the next image process constructed
    views,                 \* history: the last call of handle_image_views
    play_loop,             \* AttractLoop.play_loop, "unset" until it is assigned
    scene_timer,           \* AttractLoop.scene_timer
    attract_loop_queue,    \* AttractLoop.attract_loop_queue
    tick_pc,               \* the timer thread's place in _play_attract_loop
    scene_presentation,    \* local of _play_attract_loop_item: the item popped
    last_activity,         \* history: data of the last activity message
    published,             \* history: the last scene a tick has published
    since                  \* history: the ticks begun and whether an activity
                           \* message was handled since the last scene was published

\* The AdhocBrowserPool of another viewport.
others == <<other_lock, other_pc, other_browsers>>

\* The subscribers of /director/scene.
director == <<director_msg, pending, scene_callback, image_views, master>>

\* The arguments and the results of the url functions, called on their own.
urls == <<arg_url, arg_id, injected_url, stripped_url>>

\* The state of the other nodes.
\* ImageViewer: self.current_images and the processes it has made.
image_viewer == <<current_images, image_started, image_stopped, nextImage, views>>

\* AttractLoop: self.* and the timer thread's place in _play_attract_loop.
attract_loop == <<play_loop, scene_timer, attract_loop_queue, tick_pc, scene_presentation,
                  last_activity, published, since>>

\* The state of the nodes that show media.
media == <<image_viewer, attract_loop>>

elsewhere == <<director, urls, update, media>>

\* The state handle_ros_message neither reads nor writes.
outside == <<service_pc, others, elsewhere>>

vars == <<browsers, lock, pc, snapshot_ids, incoming_browsers, existing_ids, fresh_ids,
          current_browsers_ids, nextHandle, closed, close_raised, dropped, start, overwritten,
          log, repeat,
          released, overtaken, outside, histories>>

\* ------------------------------------------------------------- helpers
\* self.type_key
type_key == "adhoc"

\* self.viewport_name
viewport_name == "center"

\* ApplicationState.VISIBLE
VISIBLE == "VISIBLE"

\* The least element of a non-empty set of integers.
Min(S) == CHOOSE m \in S : \A n \in S : m <= n

\* The greatest element of a non-empty set of integers.
Max(S) == CHOOSE m \in S : \A n \in S : m >= n

\* The atoms of an id: "a&b" holds a "&".
Atoms(id) == IF id = "a&b" THEN <<"a", "&", "b">> ELSE <<id>>

\* _get_ros_instance_id: "%s__%s__%s" % (type_key, viewport_name, id)
get_ros_instance_id(new_browser_pool_id) ==
    <<type_key, "__", viewport_name, "__">> \o Atoms(new_browser_pool_id)

\* urlparse(url).query: what follows the first "?"; the empty string, never
\* None, when there is no "?".
UrlQuery(url) ==
    LET marks == {i \in 1..Len(url) : url[i] = "?"}
    IN  IF marks = {}
        THEN [isNone |-> FALSE, value |-> <<>>]
        ELSE [isNone |-> FALSE, value |-> SubSeq(url, Min(marks) + 1, Len(url))]

\* _add_ros_instance_url_param
add_ros_instance_url_param(url, ros_instance_name) ==
    LET url_parts_query == UrlQuery(url)
        sep == IF url_parts_query.isNone THEN "?" ELSE "&"
    IN  url \o <<sep, "ros_instance_name=">> \o ros_instance_name

\* re.sub(r'[&?]ros_instance_name=[^&]*$', '', url): the leftmost place where
\* the pattern matches up to the end of the string is cut off.
StripRosInstanceName(url) ==
    LET n == Len(url)
        Matches(i) == /\ i + 1 <= n
                      /\ url[i] \in {"&", "?"}
                      /\ url[i + 1] = "ros_instance_name="
                      /\ \A j \in (i + 2)..n : url[j] # "&"
        found == {i \in 1..n : Matches(i)}
    IN  IF found = {} THEN url ELSE SubSeq(url, 1, Min(found) - 1)

\* _unpack_incoming_browsers keeping the first item of an id, as a loop that
\* skips the ids it has seen would.
unpack_incoming_browsers_first(bs) ==
    [i \in {bs[k].id : k \in DOMAIN bs} |->
        bs[Min({k \in DOMAIN bs : bs[k].id = i})]]

\* _unpack_incoming_browsers: {b.id: b for b in browsers}; of two items with
\* one id the later one stays.
unpack_incoming_browsers(bs) ==
    [i \in {bs[k].id : k \in DOMAIN bs} |->
        bs[Max({k \in DOMAIN bs : bs[k].id = i})]]

\* lg_common.helpers.get_app_instances_ids: the ids of the pool, as a set.
get_app_instances_ids(instances) == DOMAIN instances

\* existing_urls without the re.sub: the urls of the pool as they are stored.
existing_urls_unstripped(pool) == {pool[i].url : i \in DOMAIN pool}

\* existing_urls of _partition_existing_browser_ids
existing_urls(pool) == {StripRosInstanceName(pool[i].url) : i \in DOMAIN pool}

\* browser_exists of _partition_existing_browser_ids
browser_exists(pool, browser) == browser.url \in existing_urls(pool)

\* _partition_existing_browser_ids: (existing_ids, fresh_ids)
partition_existing_browser_ids(pool, incoming) ==
    [existing |-> {i \in DOMAIN incoming : browser_exists(pool, incoming[i])},
     fresh    |-> {i \in DOMAIN incoming : ~browser_exists(pool, incoming[i])}]

\* _remove_browser without its del statement.
DelBrowser_skipped(pool, browser_pool_id) == pool

\* del self.browsers[browser_pool_id]
DelBrowser(pool, browser_pool_id) ==
    [i \in DOMAIN pool \ {browser_pool_id} |-> pool[i]]

\* self.browsers[new_browser_pool_id] = browser_to_create
PutBrowser(pool, new_browser_pool_id, browser_to_create) ==
    [i \in DOMAIN pool \cup {new_browser_pool_id} |->
        IF i = new_browser_pool_id THEN browser_to_create ELSE pool[i]]

\* _create_browser passing url=new_browser.url instead of url=new_url.
NewBrowser_plain_url(handle, new_browser_pool_id, new_browser) ==
    [h        |-> handle,
     url      |-> new_browser.url,
     geometry |-> WindowGeometry(new_browser.geometry.x,
                                 new_browser.geometry.y,
                                 new_browser.geometry.width,
                                 new_browser.geometry.height),
     state    |-> VISIBLE]

\* The ManagedAdhocBrowser _create_browser constructs and sets VISIBLE.
NewBrowser(handle, new_browser_pool_id, new_browser) ==
    [h        |-> handle,
     url      |-> add_ros_instance_url_param(
                      new_browser.url, get_ros_instance_id(new_browser_pool_id)),
     geometry |-> WindowGeometry(new_browser.geometry.x,
                                 new_browser.geometry.y,
                                 new_browser.geometry.width,
                                 new_browser.geometry.height),
     state    |-> VISIBLE]

\* What raises in _create_browser: ManagedAdhocBrowser() or set_state().
CreateRaisedBy == {"constructor", "set_state"}

\* ManagedAdhocBrowser.close() returns or raises.
CloseOutcomes == {"ok", "raise"}

\* ManagedAdhocBrowser(...) and set_state(VISIBLE) return or raise.
CreateOutcomes == {"ok", "raise"}

\* The item of bs after which no item of bs has the id i.
LaterItem(bs, i) ==
    bs[CHOOSE k \in DOMAIN bs :
           /\ bs[k].id = i
           /\ \A m \in DOMAIN bs : m > k => bs[m].id # i]

\* The ids bs has an item for that another item of the same id follows, each
\* with the last item of its id.
OverwrittenItems(bs) ==
    [i \in {bs[k].id : k \in {n \in DOMAIN bs : bs[n] # LaterItem(bs, bs[n].id)}} |->
        LaterItem(bs, i)]

\* The messages a call may be given, each as line 182 reads it: the ids of
\* data.browsers and the dict _unpack_incoming_browsers makes of it.
Messages ==
    {[ids         |-> {S[k].id : k \in DOMAIN S},
      incoming    |-> unpack_incoming_browsers(S),
      overwritten |-> OverwrittenItems(S)] : S \in Snapshots}

\* ------------------------------------------------------------- actions
\* The call is no repeat of the call before it.
NoRepeat == [on |-> FALSE, incoming |-> EmptyDict]

\* No call of the pool is under way, and none has been made.
PoolIdle ==
    /\ lock = FALSE
    /\ pc = [t \in Threads |-> "idle"]
    /\ snapshot_ids = [t \in Threads |-> {}]
    /\ incoming_browsers = [t \in Threads |-> EmptyDict]
    /\ existing_ids = [t \in Threads |-> {}]
    /\ fresh_ids = [t \in Threads |-> {}]
    /\ current_browsers_ids = [t \in Threads |-> {}]
    /\ closed = {}
    /\ close_raised = {}
    /\ dropped = {}
    /\ start = [t \in Threads |-> EmptyDict]
    /\ overwritten = [t \in Threads |-> EmptyDict]
    /\ log = [t \in Threads |-> <<>>]
    /\ repeat = [t \in Threads |-> NoRepeat]
    /\ released = EmptyDict
    /\ overtaken = [t \in Threads |-> FALSE]
    /\ service_pc = "idle"
    /\ other_lock = FALSE
    /\ other_pc = "idle"
    /\ other_browsers = {}

\* The state AdhocBrowserPool.__init__ leaves, with nothing issued yet.
PoolConstructed ==
    /\ browsers = EmptyDict
    /\ nextHandle = 1
    /\ PoolIdle

\* /director/scene and /image/views with nothing published yet.
DirectorConstructed ==
    /\ director_msg = NoMsg
    /\ pending = {}
    /\ scene_callback = NoMsg
    /\ image_views = NoMsg

\* The state ImageViewer.__init__ leaves.
ImageViewerConstructed ==
    /\ current_images = {}
    /\ image_started = {}
    /\ image_stopped = {}
    /\ nextImage = 1
    /\ views = NoMsg

\* The state AttractLoop.__init__ leaves: play_loop is not assigned.
AttractLoopConstructed ==
    /\ play_loop = "unset"
    /\ scene_timer = 0
    /\ attract_loop_queue = <<>>
    /\ tick_pc = "idle"
    /\ scene_presentation = ""
    /\ last_activity = "none"
    /\ published = NoMsg
    /\ since = [ticks |-> 0, activity |-> FALSE]

\* The state the constructors of the media nodes leave.
MediaConstructed == ImageViewerConstructed /\ AttractLoopConstructed

\* No url function has been called on its own.
UrlsIdle ==
    /\ arg_url = NoUrl
    /\ arg_id = ""
    /\ injected_url = NoUrl
    /\ stripped_url = NoUrl

\* The state the nodes start in, with nothing issued yet.
Constructed ==
    /\ PoolConstructed
    /\ DirectorConstructed
    /\ master = TRUE
    /\ UrlsIdle
    /\ update = NoMsg
    /\ MediaConstructed

\* The optional histories: "overtaken", "close_raised" and "overwritten" are
\* kept by the specifications whose claims read them, and stay as they start
\* elsewhere.
Keeps(history) == history \in histories

Init == Constructed /\ histories = {}

\* handle_ros_message of this pool going for the lock of the other pool too,
\* as with one lock made at class level.
LockFree_shared == lock = FALSE /\ other_lock = FALSE

\* handle_ros_message without `with self.lock`.
LockFree_unlocked == TRUE

\* `with self.lock` may be entered.
LockFree == lock = FALSE

\* The two loops of handle_ros_message merged into one.
RemoveLoopFinished_merged(t) == TRUE

\* The second loop of handle_ros_message follows the first.
RemoveLoopFinished(t) == current_browsers_ids[t] = {}

\* The call of t has run both loops and is about to return True.
AtReturn(t) ==
    /\ pc[t] = "locked"
    /\ current_browsers_ids[t] = {}
    /\ fresh_ids[t] = {}

\* The locals of a call that has ended.
ClearLocals(t) ==
    /\ incoming_browsers' = [incoming_browsers EXCEPT ![t] = EmptyDict]
    /\ existing_ids' = [existing_ids EXCEPT ![t] = {}]
    /\ fresh_ids' = [fresh_ids EXCEPT ![t] = {}]
    /\ current_browsers_ids' = [current_browsers_ids EXCEPT ![t] = {}]
    /\ snapshot_ids' = [snapshot_ids EXCEPT ![t] = {}]
    /\ start' = [start EXCEPT ![t] = EmptyDict]
    /\ overwritten' = [overwritten EXCEPT ![t] = EmptyDict]
    /\ log' = [log EXCEPT ![t] = <<>>]

\* The call of t changes self.browsers: the calls that wait for the lock
\* were issued on a pool that is no more.
Overtake(t) ==
    [u \in Threads |->
        IF Keeps("overtaken") /\ u # t /\ pc[u] = "waiting" THEN TRUE ELSE overtaken[u]]

\* An exception leaves handle_ros_message and the lock stays held, as with
\* self.lock.acquire() and no try/finally in place of the with statement.
Raise_lock_kept(t) ==
    /\ lock' = lock
    /\ pc' = [pc EXCEPT ![t] = "idle"]
    /\ repeat' = [repeat EXCEPT ![t] = NoRepeat]
    /\ released' = browsers
    /\ overtaken' = [overtaken EXCEPT ![t] = FALSE]
    /\ ClearLocals(t)

\* An exception leaves handle_ros_message: the with statement releases the
\* lock and rospy logs the bad callback.
Raise(t) ==
    /\ lock' = FALSE
    /\ pc' = [pc EXCEPT ![t] = "idle"]
    /\ repeat' = [repeat EXCEPT ![t] = NoRepeat]
    /\ released' = browsers
    /\ overtaken' = [overtaken EXCEPT ![t] = FALSE]
    /\ ClearLocals(t)

\* rospy calls handle_ros_message(data) on thread t, which goes for the lock.
Call(t) ==
    /\ pc[t] = "idle"
    /\ pc' = [pc EXCEPT ![t] = "waiting"]
    /\ overtaken' = [overtaken EXCEPT ![t] = FALSE]
    /\ UNCHANGED <<browsers, lock, snapshot_ids, incoming_browsers,
                   existing_ids, fresh_ids, current_browsers_ids, nextHandle,
                   closed, close_raised, dropped, start, overwritten, log, repeat, released,
                   outside, histories>>

\* Lines 181-187: t takes the lock, reads data.browsers, unpacks it and
\* partitions its ids.  The content of data is drawn here, at line 182, the
\* one place where the code reads it; a repeat of the call before draws a
\* snapshot that unpacks to what the snapshot of that call unpacked to.
Acquire(t) ==
    /\ pc[t] = "waiting"
    /\ LockFree
    /\ \E data \in Messages :
        LET incoming == data.incoming
            parts    == partition_existing_browser_ids(browsers, incoming)
        IN  /\ repeat[t].on => incoming = repeat[t].incoming
            /\ nextHandle - 1 + Cardinality(parts.fresh) <= MaxInstances
            /\ snapshot_ids' = [snapshot_ids EXCEPT ![t] = data.ids]
            /\ incoming_browsers' = [incoming_browsers EXCEPT ![t] = incoming]
            /\ existing_ids' = [existing_ids EXCEPT ![t] = parts.existing]
            /\ fresh_ids' = [fresh_ids EXCEPT ![t] = parts.fresh]
            /\ overwritten' =
                   [overwritten EXCEPT ![t] =
                       IF Keeps("overwritten") THEN data.overwritten ELSE EmptyDict]
    /\ current_browsers_ids' =
           [current_browsers_ids EXCEPT ![t] = get_app_instances_ids(browsers)]
    /\ lock' = TRUE
    /\ pc' = [pc EXCEPT ![t] = "locked"]
    /\ start' = [start EXCEPT ![t] = browsers]
    /\ log' = [log EXCEPT ![t] = <<>>]
    /\ repeat' = [u \in Threads |-> IF u = t THEN repeat[t] ELSE NoRepeat]
    /\ UNCHANGED <<browsers, nextHandle, closed, close_raised, dropped, released, overtaken,
                   outside, histories>>

\* Lines 189-192: the first loop visits an id that is among existing_ids.
KeepBrowser(t) ==
    /\ pc[t] = "locked"
    /\ \E id \in current_browsers_ids[t] :
        /\ id \in existing_ids[t]
        /\ current_browsers_ids' =
               [current_browsers_ids EXCEPT ![t] = @ \ {id}]
    /\ UNCHANGED <<browsers, lock, pc, snapshot_ids, incoming_browsers,
                   existing_ids, fresh_ids, nextHandle, closed, close_raised, dropped, start,
                   overwritten,
                   log,
                   repeat, released, overtaken, outside, histories>>

\* Lines 193-194 and _remove_browser: the first loop visits an id that is not
\* among existing_ids, closes its browser and deletes its entry.  The call
\* ends with an exception when close() raises one, or self.browsers[id] a
\* KeyError.
RemoveBrowser(t) ==
    /\ pc[t] = "locked"
    /\ \E id \in current_browsers_ids[t] :
        /\ id \notin existing_ids[t]
        /\ \E outcome \in CloseOutcomes :
            \/ /\ id \in DOMAIN browsers
               /\ outcome = "ok"
               /\ closed' = closed \cup {browsers[id].h}
               /\ close_raised' = close_raised \ {browsers[id].h}
               /\ browsers' = DelBrowser(browsers, id)
               /\ log' = [log EXCEPT ![t] =
                            @ \o <<[op |-> "close", id |-> id, h |-> browsers[id].h],
                                   [op |-> "del", id |-> id, h |-> browsers[id].h]>>]
               /\ current_browsers_ids' =
                      [current_browsers_ids EXCEPT ![t] = @ \ {id}]
               /\ UNCHANGED <<lock, pc, snapshot_ids, incoming_browsers,
                              existing_ids, fresh_ids, nextHandle, start,
                              overwritten, repeat, dropped,
                              released, outside, histories>>
               /\ overtaken' = Overtake(t)
            \/ /\ id \notin DOMAIN browsers \/ outcome = "raise"
               /\ close_raised' = IF Keeps("close_raised") /\ id \in DOMAIN browsers
                                  THEN close_raised \cup {browsers[id].h}
                                  ELSE close_raised
               /\ Raise(t)
               /\ UNCHANGED <<browsers, nextHandle, closed, dropped, outside, histories>>

\* Lines 196-198 and _create_browser: the second loop visits a fresh id.  The
\* call that raises is the constructor (line 92) or set_state (line 97), which
\* leaves an object constructed and not stored.
CreateBrowser(t) ==
    /\ pc[t] = "locked"
    /\ RemoveLoopFinished(t)
    /\ \E id \in fresh_ids[t] :
        \E outcome \in CreateOutcomes :
            \/ /\ outcome = "ok"
               /\ browsers' = PutBrowser(browsers, id,
                                  NewBrowser(nextHandle, id, incoming_browsers[t][id]))
               /\ nextHandle' = nextHandle + 1
               /\ log' = [log EXCEPT ![t] =
                            Append(@, [op |-> "create", id |-> id, h |-> nextHandle])]
               /\ fresh_ids' = [fresh_ids EXCEPT ![t] = @ \ {id}]
               /\ UNCHANGED <<lock, pc, snapshot_ids, incoming_browsers,
                              existing_ids, current_browsers_ids, closed,
                              close_raised, dropped, start, overwritten, repeat, released,
                              outside, histories>>
               /\ overtaken' = Overtake(t)
            \/ /\ outcome = "raise"
               /\ Raise(t)
               /\ \E raised_by \in CreateRaisedBy :
                      IF Keeps("dropped") /\ raised_by = "set_state"
                        THEN /\ dropped' = dropped \cup {nextHandle}
                             /\ nextHandle' = nextHandle + 1
                        ELSE UNCHANGED <<dropped, nextHandle>>
               /\ UNCHANGED <<browsers, closed, close_raised, outside, histories>>

\* Line 200: return True; the with statement releases the lock.
Return(t) ==
    /\ AtReturn(t)
    /\ lock' = FALSE
    /\ pc' = [pc EXCEPT ![t] = "idle"]
    /\ repeat' = [repeat EXCEPT ![t] = NoRepeat]
    /\ released' = browsers
    /\ overtaken' = [overtaken EXCEPT ![t] = FALSE]
    /\ ClearLocals(t)
    /\ UNCHANGED <<browsers, nextHandle, closed, close_raised, dropped, outside, histories>>

\* Line 200, and the publisher sends the same snapshot again: t returns True
\* and is called once more, with the data of the call it has just ended.  The
\* snapshot is sent again only while MaxInstances leaves room for the objects
\* the repeat would construct.
ReturnAndRepeat(t) ==
    /\ AtReturn(t)
    /\ nextHandle - 1
           + Cardinality(partition_existing_browser_ids(
                             browsers, incoming_browsers[t]).fresh) <= MaxInstances
    /\ lock' = FALSE
    /\ pc' = [pc EXCEPT ![t] = "waiting"]
    /\ repeat' = [repeat EXCEPT ![t] =
                     [on |-> TRUE, incoming |-> incoming_browsers[t]]]
    /\ released' = browsers
    /\ overtaken' = [overtaken EXCEPT ![t] = FALSE]
    /\ ClearLocals(t)
    /\ UNCHANGED <<browsers, nextHandle, closed, close_raised, dropped, outside, histories>>

Next ==
    \E t \in Threads :
        \/ Call(t)
        \/ Acquire(t)
        \/ KeepBrowser(t)
        \/ RemoveBrowser(t)
        \/ CreateBrowser(t)
        \/ Return(t)
        \/ ReturnAndRepeat(t)

Spec == Init /\ [][Next]_vars

\* Spec, keeping the history of the calls that were overtaken while they
\* waited for the lock.
InitOvertaken == Constructed /\ histories = {"overtaken"}

SpecOvertaken == InitOvertaken /\ [][Next]_vars

\* Spec, keeping the history of the items a message overwrites.
InitOverwritten == Constructed /\ histories = {"overwritten"}

SpecOverwritten == InitOverwritten /\ [][Next]_vars

\* Spec, keeping the history of the browsers whose close() has raised.
InitCloseRaised == Constructed /\ histories = {"close_raised"}

\* Spec with the objects kept that were constructed and not stored.
InitDropped == Constructed /\ histories = {"dropped"}

SpecDropped == InitDropped /\ [][Next]_vars

SpecCloseRaised == InitCloseRaised /\ [][Next]_vars

\* What a call does between taking the lock and releasing it.
Locked(t) ==
    \/ KeepBrowser(t)
    \/ RemoveBrowser(t)
    \/ CreateBrowser(t)
    \/ Return(t)
    \/ ReturnAndRepeat(t)

\* The items of the messages under FairSpec: one url, one geometry.
FairItems ==
    {item \in Items : /\ item.url = <<"http://x">>
                      /\ item.geometry = WindowGeometry(0, 0, 100, 100)}

\* Acquire for a message whose items are among FairItems.
AcquireFair(t) ==
    /\ Acquire(t)
    /\ \A i \in DOMAIN incoming_browsers'[t] : incoming_browsers'[t][i] \in FairItems

NextFair ==
    \E t \in Threads :
        \/ Call(t)
        \/ AcquireFair(t)
        \/ Locked(t)

\* The pool under messages of items among FairItems, with the scheduling of
\* the threads: a thread that holds the lock goes on (close(), the
\* constructor and set_state are blocking calls that return or raise), and a
\* thread that waits for the lock is not passed over for ever when the lock is
\* released again and again.
FairSpec ==
    /\ InitCloseRaised
    /\ [][NextFair]_vars
    /\ \A t \in Threads : WF_vars(Locked(t)) /\ SF_vars(AcquireFair(t))

\* What handle_ros_message keeps of its calls.
calls == <<pc, snapshot_ids, incoming_browsers, existing_ids, fresh_ids,
           current_browsers_ids, start, overwritten, log, repeat, released, overtaken>>

\* One call: it is issued, takes the lock, runs its loops and leaves.
Reconcile(t) == Call(t) \/ Acquire(t) \/ Locked(t)

\* ------------------------------------------------------------- viewports
\* `with self.lock` of the other pool may be entered.
OtherLockFree == other_lock = FALSE

\* What the other pool's calls leave alone: this pool.
this_pool == <<browsers, lock, nextHandle, closed, close_raised, dropped, calls, histories,
               service_pc, elsewhere>>

\* rospy calls handle_ros_message of the other pool.
OtherCall ==
    /\ other_pc = "idle"
    /\ other_pc' = "waiting"
    /\ UNCHANGED <<other_lock, other_browsers, this_pool>>

\* Line 181 in the other pool: its thread takes its lock.
OtherAcquire ==
    /\ other_pc = "waiting"
    /\ OtherLockFree
    /\ other_lock' = TRUE
    /\ other_pc' = "locked"
    /\ UNCHANGED <<other_browsers, this_pool>>

\* Lines 189-194 in the other pool: one of its browsers is closed and deleted.
OtherRemoveBrowser ==
    /\ other_pc = "locked"
    /\ \E id \in other_browsers : other_browsers' = other_browsers \ {id}
    /\ UNCHANGED <<other_lock, other_pc, this_pool>>

\* Lines 196-198 in the other pool: a browser is created under a fresh id.
OtherCreateBrowser ==
    /\ other_pc = "locked"
    /\ \E id \in Ids \ other_browsers : other_browsers' = other_browsers \cup {id}
    /\ UNCHANGED <<other_lock, other_pc, this_pool>>

\* The other pool's call ends, by return or by exception: its lock is released.
OtherReturn ==
    /\ other_pc = "locked"
    /\ other_lock' = FALSE
    /\ other_pc' = "idle"
    /\ UNCHANGED <<other_browsers, this_pool>>

OtherNext ==
    \/ OtherCall
    \/ OtherAcquire
    \/ OtherRemoveBrowser
    \/ OtherCreateBrowser
    \/ OtherReturn

\* Two pools, each with one callback thread.
SpecViewports == Init /\ [][Reconcile("t1") \/ OtherNext]_vars

\* ------------------------------------------------------------- service
\* process_service_request without `with self.lock`.
ServiceLockFree_unlocked == TRUE

\* `with self.lock` of process_service_request may be entered.
ServiceLockFree == lock = FALSE

\* str(self.browsers): the ids of the dict, each with the object it maps to.
str_browsers(pool) == {<<i, pool[i].h>> : i \in DOMAIN pool}

\* A client calls the service: process_service_request(req) goes for the lock.
ServiceCall ==
    /\ service_pc = "idle"
    /\ service_pc' = "waiting"
    /\ UNCHANGED <<browsers, lock, nextHandle, closed, close_raised, dropped, calls, histories,
                   others, elsewhere>>

\* Line 38: the service thread takes the lock.
ServiceAcquire ==
    /\ service_pc = "waiting"
    /\ ServiceLockFree
    /\ lock' = TRUE
    /\ service_pc' = "locked"
    /\ UNCHANGED <<browsers, nextHandle, closed, close_raised, dropped, calls, histories, others, elsewhere>>

\* Lines 39-40: return str(self.browsers); the with statement releases the
\* lock.
ServiceReturn ==
    /\ service_pc = "locked"
    /\ lock' = FALSE
    /\ service_pc' = "idle"
    /\ UNCHANGED <<browsers, nextHandle, closed, close_raised, dropped, calls, histories, others, elsewhere>>

ServiceNext == ServiceCall \/ ServiceAcquire \/ ServiceReturn

\* The pool with its subscriber callback and its service.
SpecService == Init /\ [][Next \/ ServiceNext]_vars

\* ------------------------------------------------------------- director
\* The state of the AdhocBrowserPool node, which the other nodes leave alone.
adhoc_browser == <<browsers, lock, nextHandle, closed, close_raised, dropped, calls, histories,
                   service_pc, others>>

\* GenericMessage.message, in tokens: the brackets of an object and of an
\* array, "image" for a window of activity 'image', "junk" for a token no
\* JSON text holds.  The payloads are the empty string, objects and arrays
\* with and without windows, and texts that are not JSON.
Payloads == {<<>>, <<"{", "}">>, <<"{", "image", "}">>, <<"{", "image", "image", "}">>,
             <<"[", "]">>, <<"[", "image", "]">>,
             <<"{">>, <<"junk">>, <<"}", "{">>, <<"{", "image">>, <<"{", "junk", "}">>,
             <<"{", "image", "]">>}

\* GenericMessage.type
Types == {"json", "text"}

\* interactivespaces_msgs.msg.GenericMessage
GenericMessages == [type : Types, message : Payloads]

\* The tokens between the first and the last are windows.
WindowsOnly(p) == \A i \in 2..(Len(p) - 1) : p[i] = "image"

\* json.loads(payload): the object or the array of the windows the payload
\* holds, or ValueError.
json_loads(p) ==
    IF Len(p) >= 2 /\ p[1] = "{" /\ p[Len(p)] = "}" /\ WindowsOnly(p)
      THEN [raises |-> "", value |-> [kind |-> "dict", windows |-> Len(p) - 2]]
    ELSE IF Len(p) >= 2 /\ p[1] = "[" /\ p[Len(p)] = "]" /\ WindowsOnly(p)
      THEN [raises |-> "", value |-> [kind |-> "list", windows |-> Len(p) - 2]]
    ELSE [raises |-> "ValueError", value |-> NoMsg]

\* handle_scene with the return of its except clause left out.
handle_scene_no_return(msg) ==
    IF msg.type # "json" THEN [raises |-> "AssertionError", called |-> FALSE, scene |-> NoMsg]
    ELSE [raises |-> "", called |-> TRUE, scene |-> json_loads(msg.message).value]

\* SceneListener.handle_scene(msg): whether the callback is called, and the
\* scene it is called with.
handle_scene(msg) ==
    IF msg.type # "json" THEN [raises |-> "AssertionError", called |-> FALSE, scene |-> NoMsg]
    ELSE IF json_loads(msg.message).raises = "ValueError"
      THEN [raises |-> "", called |-> FALSE, scene |-> NoMsg]
    ELSE [raises |-> "", called |-> TRUE, scene |-> json_loads(msg.message).value]

\* ImageViewer.director_translator(data): whether an ImageViews message is
\* published, and the number of its images.  An array has no get().
director_translator(is_master, data) ==
    IF ~is_master THEN [raises |-> "", published |-> FALSE, images |-> 0]
    ELSE IF json_loads(data.message).raises = "ValueError"
      THEN [raises |-> "", published |-> FALSE, images |-> 0]
    ELSE IF json_loads(data.message).value.kind # "dict"
      THEN [raises |-> "AttributeError", published |-> FALSE, images |-> 0]
    ELSE [raises |-> "", published |-> TRUE,
          images |-> json_loads(data.message).value.windows]

\* The director publishes a message on /director/scene.
DirectorPublish ==
    /\ pending = {}
    /\ \E msg \in GenericMessages : director_msg' = msg
    /\ pending' = {"scene_listener", "image_viewer"}
    /\ UNCHANGED <<scene_callback, image_views, master, adhoc_browser, urls, update, media>>

\* rospy calls SceneListener.handle_scene with the message.
HandleScene ==
    /\ "scene_listener" \in pending
    /\ pending' = pending \ {"scene_listener"}
    /\ scene_callback' =
         IF handle_scene(director_msg).called
           THEN [msg |-> director_msg, scene |-> handle_scene(director_msg).scene]
           ELSE scene_callback
    /\ UNCHANGED <<director_msg, image_views, master, adhoc_browser, urls, update, media>>

\* rospy calls ImageViewer.director_translator with the message.
DirectorTranslator ==
    /\ "image_viewer" \in pending
    /\ pending' = pending \ {"image_viewer"}
    /\ image_views' =
         IF director_translator(master, director_msg).published
           THEN [msg |-> director_msg,
                 images |-> director_translator(master, director_msg).images]
           ELSE image_views
    /\ UNCHANGED <<director_msg, scene_callback, master, adhoc_browser, urls, update, media>>

DirectorNext == DirectorPublish \/ HandleScene \/ DirectorTranslator

\* The nodes with ~master set and without.
InitDirector ==
    /\ PoolConstructed
    /\ histories = {}
    /\ DirectorConstructed
    /\ master \in BOOLEAN
    /\ UrlsIdle
    /\ update = NoMsg
    /\ MediaConstructed

SpecDirector == InitDirector /\ [][DirectorNext]_vars

\* ------------------------------------------------------------- urls
\* The atoms of the urls the functions are called with.
UrlAtoms == {"http://x", "?", "&", "q=1", "ros_instance_name="}

\* The urls: every string of at most MaxUrlLen atoms that starts with the
\* address.
ArgUrls == {u \in UNION {[1..n -> UrlAtoms] : n \in 1..MaxUrlLen} : u[1] = "http://x"}

\* The ids: those of the snapshots, and one that holds a "&".
ArgIds == Ids \cup {"a&b"}

\* What is left of the state when the url functions are called on their own.
but_urls == <<adhoc_browser, director, update, media>>

\* _add_ros_instance_url_param(url, _get_ros_instance_id(id)) is called, as
\* _create_browser calls it.
AddRosInstanceUrlParam ==
    /\ injected_url = NoUrl
    /\ injected_url' = add_ros_instance_url_param(arg_url, get_ros_instance_id(arg_id))
    /\ UNCHANGED <<arg_url, arg_id, stripped_url, but_urls>>

\* re.sub(...) is called with the url the browser was given, as
\* _partition_existing_browser_ids calls it.
StripUrl ==
    /\ injected_url # NoUrl
    /\ stripped_url = NoUrl
    /\ stripped_url' = StripRosInstanceName(injected_url)
    /\ UNCHANGED <<arg_url, arg_id, injected_url, but_urls>>

UrlsNext == AddRosInstanceUrlParam \/ StripUrl

\* The url functions with every url and id as arguments.
InitUrls ==
    /\ PoolConstructed
    /\ histories = {}
    /\ DirectorConstructed
    /\ master = TRUE
    /\ arg_url \in ArgUrls
    /\ arg_id \in ArgIds
    /\ injected_url = NoUrl
    /\ stripped_url = NoUrl
    /\ update = NoMsg
    /\ MediaConstructed

SpecUrls == InitUrls /\ [][UrlsNext]_vars

\* ------------------------------------------------------------- update
\* ManagedAdhocBrowser.update_url() and update_geometry() return or raise.
UpdateOutcomes == {"ok", "raise"}

\* self.browsers after handle_ros_message has created the browsers of a
\* snapshot in an empty pool.
CreatedPool(bs) ==
    LET incoming == unpack_incoming_browsers(bs)
        handle(i) == Cardinality({j \in DOMAIN incoming : j = "a" \/ j = i})
    IN  [i \in DOMAIN incoming |-> NewBrowser(handle(i), i, incoming[i])]

\* _update_browser, line 118: current_browser.url != future_url
url_differs(current_browser, future_url) == current_browser.url # future_url

\* _update_browser_url without its except clause.
update_browser_url_uncaught(outcome) ==
    [returns |-> outcome = "ok", raises |-> outcome = "raise"]

\* _update_browser_url: True when update_url returned, False when it raised.
update_browser_url(outcome) == [returns |-> outcome = "ok", raises |-> FALSE]

\* _update_browser_geometry: True when update_geometry returned, False when
\* it raised.
update_browser_geometry(outcome) == [returns |-> outcome = "ok", raises |-> FALSE]

\* What is left of the state when _update_browser is called.
but_update == <<lock, nextHandle, closed, close_raised, dropped, calls, histories, service_pc,
                others, director, urls, media>>

\* _update_browser(browser_pool_id, updated_browser) is called for a tracked
\* id while no call of handle_ros_message is under way.
UpdateBrowser ==
    /\ lock = FALSE
    /\ \E browser_pool_id \in DOMAIN browsers, updated_browser \in Items,
          url_outcome \in UpdateOutcomes, geometry_outcome \in UpdateOutcomes :
         LET current_browser == browsers[browser_pool_id]
             future_url == updated_browser.url
             future_geometry == WindowGeometry(updated_browser.geometry.x,
                                               updated_browser.geometry.y,
                                               updated_browser.geometry.width,
                                               updated_browser.geometry.height)
             url_called == url_differs(current_browser, future_url)
             url_result == update_browser_url(url_outcome)
             url_raised == url_called /\ url_result.raises
             geometry_called == ~url_raised
             geometry_result == update_browser_geometry(geometry_outcome)
             with_url == IF url_called /\ url_result.returns
                           THEN [current_browser EXCEPT !.url =
                                    add_ros_instance_url_param(
                                        future_url, get_ros_instance_id(browser_pool_id))]
                           ELSE current_browser
             with_geometry == IF geometry_called /\ geometry_result.returns
                                THEN [with_url EXCEPT !.geometry = future_geometry]
                                ELSE with_url
         IN  /\ browsers' = [browsers EXCEPT ![browser_pool_id] = with_geometry]
             /\ update' = [turn |-> IF update = NoMsg THEN 0 ELSE 1 - update.turn,
                           id |-> browser_pool_id,
                           url |-> future_url,
                           update_url |-> IF ~url_called THEN "skipped" ELSE url_outcome,
                           update_geometry |-> IF ~geometry_called THEN "skipped"
                                               ELSE geometry_outcome,
                           returned |-> ~url_raised /\ ~geometry_result.raises]
    /\ UNCHANGED but_update

\* The pools handle_ros_message has created from a snapshot, every call of
\* it finished.
InitUpdate ==
    /\ \E bs \in Snapshots :
         /\ browsers = CreatedPool(bs)
         /\ nextHandle = Cardinality(DOMAIN browsers) + 1
    /\ PoolIdle
    /\ histories = {}
    /\ DirectorConstructed
    /\ master = TRUE
    /\ UrlsIdle
    /\ update = NoMsg
    /\ MediaConstructed

SpecUpdate == InitUpdate /\ [][UpdateBrowser]_vars

\* ------------------------------------------------------------- image viewer
\* ImageViewer.viewports
viewports == {"center"}

\* lg_media.msg.ImageView: two images of one url and geometry that differ in
\* their uuid, one of another geometry, one of another url, and two for a
\* viewport that is not this viewer's.
ImageViewItems ==
    {[url |-> <<"http://x">>, geometry |-> WindowGeometry(0, 0, 100, 100),
      viewport |-> "center", uuid |-> "u1"],
     [url |-> <<"http://x">>, geometry |-> WindowGeometry(0, 0, 100, 100),
      viewport |-> "center", uuid |-> "u2"],
     [url |-> <<"http://x">>, geometry |-> WindowGeometry(10, 20, 200, 300),
      viewport |-> "center", uuid |-> "u3"],
     [url |-> <<"http://y", "?", "q=1">>, geometry |-> WindowGeometry(0, 0, 100, 100),
      viewport |-> "center", uuid |-> "u4"],
     [url |-> <<"http://x">>, geometry |-> WindowGeometry(0, 0, 100, 100),
      viewport |-> "left", uuid |-> "u5"]}

\* lg_media.msg.ImageViews.images
ImageViewsMsgs == UNION {[1..n -> ImageViewItems] : n \in 0..MaxLen}

\* The orders current_images.items() may give the entries of the dict in.
ItemsOrders(entries) ==
    {s \in [1..Cardinality(entries) -> entries] :
        \A i, j \in DOMAIN s : s[i] = s[j] => i = j}

\* The entries of items that have the url and the geometry of image.
SameImage(items, image) ==
    {k \in DOMAIN items : /\ items[k].image.url = image.url
                          /\ items[k].image.geometry = image.geometry}

\* is_in_current_images: the process of the first entry with the url and the
\* geometry of image, or None (0).
is_in_current_images(items, image) ==
    IF SameImage(items, image) = {} THEN 0
    ELSE items[Min(SameImage(items, image))].obj

\* Line 79: image.viewport in self.viewports
InViewports(image) == image.viewport \in viewports

\* The images of the message the first loop does not skip.
Relevant(images) == {i \in DOMAIN images : InViewports(images[i])}

\* The images the first loop finds a tracked process for.
Duplicates(items, images) ==
    {i \in Relevant(images) : is_in_current_images(items, images[i]) # 0}

\* images_to_remove.remove(duplicate_image) raises ValueError: an earlier
\* image of the message has taken the process off the list.
RemoveRaises(items, images) ==
    \E i, j \in Duplicates(items, images) :
        /\ i < j
        /\ is_in_current_images(items, images[i]) = is_in_current_images(items, images[j])

\* images_to_remove after the first loop.
ImagesToRemove(items, images) ==
    {items[k].obj : k \in DOMAIN items}
        \ {is_in_current_images(items, images[i]) : i \in Duplicates(items, images)}

\* images_to_add after the first loop, as the places of the images in the
\* message.
ImagesToAdd(items, images) == Relevant(images) \ Duplicates(items, images)

\* The number of the process _create_image makes for the image at place i.
CreatedImage(items, images, i) ==
    nextImage + Cardinality({j \in ImagesToAdd(items, images) : j < i})

\* What is left of the state when handle_image_views is called.
but_image_viewer == <<adhoc_browser, director, urls, update, attract_loop>>

\* The call has ended: what it was called with and how it ended.
Viewed(msg, returned) ==
    [turn |-> IF views = NoMsg THEN 0 ELSE 1 - views.turn,
     images |-> msg, returned |-> returned]

\* handle_image_views(msg) under self.lock.  failing is the place of the
\* image whose download in _create_image raises, 0 when none does.
HandleImageViews ==
    /\ \E images \in ImageViewsMsgs, items \in ItemsOrders(current_images) :
        \/ /\ RemoveRaises(items, images)
           /\ views' = Viewed(images, FALSE)
           /\ UNCHANGED <<current_images, image_started, image_stopped, nextImage>>
        \/ /\ ~RemoveRaises(items, images)
           /\ nextImage - 1 + Cardinality(ImagesToAdd(items, images)) <= MaxInstances
           /\ image_stopped' = image_stopped \cup ImagesToRemove(items, images)
           /\ \E failing \in ImagesToAdd(items, images) \cup {0} :
                LET created == {i \in ImagesToAdd(items, images) : failing = 0 \/ i < failing}
                IN  /\ image_started' = image_started \cup
                           {CreatedImage(items, images, i) : i \in created}
                    /\ nextImage' = nextImage + Cardinality(created)
                    /\ IF failing = 0
                         THEN /\ current_images' =
                                   {[image |-> images[i],
                                     obj |-> is_in_current_images(items, images[i])] :
                                        i \in Duplicates(items, images)}
                                   \cup {[image |-> images[i],
                                          obj |-> CreatedImage(items, images, i)] :
                                            i \in ImagesToAdd(items, images)}
                              /\ views' = Viewed(images, TRUE)
                         ELSE /\ UNCHANGED current_images
                              /\ views' = Viewed(images, FALSE)
    /\ UNCHANGED but_image_viewer

SpecImageViewer == Init /\ [][HandleImageViews]_vars

\* ------------------------------------------------------------- attract loop
\* The items of the queue: {'scene': ..., 'presentation': ...}
Scenes == {"scene1", "scene2"}

\* full_scene['duration'] of the scenes the director serves.
Durations == {1, 2, 3}

\* _fetch_attract_loop_content()['scenes']: None (TypeError) when there are
\* no presentation groups, or the scenes of the presentations.
FetchedScenes == {<<"None">>, <<>>, <<"scene1">>, <<"scene1", "scene2">>}

\* requests.get(scene_url) and json.loads return or raise.
DownloadOutcomes == {"ok", "raise"}

\* What is left of the state when the attract loop runs.
but_attract_loop == <<adhoc_browser, director, urls, update, image_viewer>>

\* _process_activity_state_change(message): play_loop after the call.
ActivityPlayLoop(data) == IF data = "True" THEN "False" ELSE "True"

\* rospy calls _process_activity_state_change(message) on the subscriber's
\* thread.
ProcessActivityStateChange ==
    /\ \E data \in {"True", "False"} :
         /\ play_loop' = ActivityPlayLoop(data)
         /\ last_activity' = data
    /\ since' = [since EXCEPT !.activity = TRUE]
    /\ UNCHANGED <<scene_timer, attract_loop_queue, tick_pc, scene_presentation, published,
                   but_attract_loop>>

\* The tick ends with an exception, which _play_attract_loop logs (lines
\* 87-88); line 121 is not reached.
TickRaises ==
    /\ tick_pc' = "idle"
    /\ scene_presentation' = ""

\* The timer thread calls _play_attract_loop: lines 80-86 fill the queue when
\* it is empty, lines 103-107 of _play_attract_loop_item read play_loop and
\* scene_timer; line 121 counts the timer down when the test fails.
TickCheck ==
    /\ tick_pc = "idle"
    /\ scene_timer > -MaxIdleTicks
    /\ \E fetched \in FetchedScenes :
         LET queue == IF attract_loop_queue # <<>> THEN attract_loop_queue ELSE fetched
         IN  IF queue = <<"None">>
               THEN /\ TickRaises
                    /\ UNCHANGED <<attract_loop_queue, scene_timer>>
             ELSE IF play_loop = "unset"
               THEN /\ TickRaises
                    /\ attract_loop_queue' = queue
                    /\ UNCHANGED scene_timer
             ELSE IF play_loop = "True" /\ scene_timer <= 0
               THEN /\ tick_pc' = "pop"
                    /\ attract_loop_queue' = queue
                    /\ UNCHANGED <<scene_presentation, scene_timer>>
             ELSE /\ scene_timer' = scene_timer - 1
                  /\ attract_loop_queue' = queue
                  /\ UNCHANGED <<tick_pc, scene_presentation>>
    /\ since' = [since EXCEPT !.ticks = Min({@ + 1, Max(Durations)})]
    /\ UNCHANGED <<play_loop, last_activity, published, but_attract_loop>>

\* Line 108: scene_presentation = self.attract_loop_queue.pop(0)
TickPop ==
    /\ tick_pc = "pop"
    /\ IF attract_loop_queue = <<>>
         THEN /\ TickRaises
              /\ UNCHANGED attract_loop_queue
         ELSE /\ scene_presentation' = Head(attract_loop_queue)
              /\ attract_loop_queue' = Tail(attract_loop_queue)
              /\ tick_pc' = "play"
    /\ UNCHANGED <<play_loop, scene_timer, last_activity, published, since,
                   but_attract_loop>>

\* The scene a tick publishes, with the duration of the scene published
\* before it (0 when there is none) and what has happened since.
Played(scene, duration) ==
    [turn |-> IF published = NoMsg THEN 0 ELSE 1 - published.turn,
     scene |-> scene, duration |-> duration,
     previous |-> IF published = NoMsg THEN 0 ELSE published.duration,
     ticks |-> since.ticks, activity |-> since.activity]

\* _play_scene without line 100: scene_timer is counted down only.
SceneTimerAfterPlay_kept(duration) == scene_timer - 1

\* Lines 100 and 121: self.scene_timer = duration, then self.scene_timer -= 1
SceneTimerAfterPlay(duration) == duration - 1

\* Lines 114-121: the scene is downloaded, _play_scene publishes the scene
\* and the presentation and sets scene_timer, line 121 counts it down.
TickPlay ==
    /\ tick_pc = "play"
    /\ \E outcome \in DownloadOutcomes, scene_duration \in Durations :
         IF outcome = "raise"
           THEN /\ TickRaises
                /\ UNCHANGED <<scene_timer, published, since>>
           ELSE /\ published' = Played(scene_presentation, scene_duration)
                /\ since' = [ticks |-> 0, activity |-> FALSE]
                /\ scene_timer' = SceneTimerAfterPlay(scene_duration)
                /\ tick_pc' = "idle"
                /\ scene_presentation' = ""
    /\ UNCHANGED <<play_loop, attract_loop_queue, last_activity, but_attract_loop>>

AttractLoopNext == ProcessActivityStateChange \/ TickCheck \/ TickPop \/ TickPlay

SpecAttractLoop == Init /\ [][AttractLoopNext]_vars

\* ------------------------------------------------------------- claims
\* The pool ids whose browser, when the call of t took the lock, showed the
\* url the snapshot gives for the same id.
SameUrlIds(t) ==
    {i \in DOMAIN start[t] \cap DOMAIN incoming_browsers[t] :
        StripRosInstanceName(start[t][i].url) = incoming_browsers[t][i].url}

\* The pool ids the snapshot gives another url for.
ChangedUrlIds(t) ==
    {i \in DOMAIN start[t] \cap DOMAIN incoming_browsers[t] :
        StripRosInstanceName(start[t][i].url) # incoming_browsers[t][i].url}

\* The snapshot ids whose url no browser of the pool showed when the call of
\* t took the lock.
FreshItemIds(t) ==
    {i \in DOMAIN incoming_browsers[t] :
        \A j \in DOMAIN start[t] :
            StripRosInstanceName(start[t][j].url) # incoming_browsers[t][i].url}

\* The handles the call of t has logged with an operation.
Logged(t, op) == {log[t][k].h : k \in {n \in DOMAIN log[t] : log[t][n].op = op}}

\* C1 (Convergence): when handle_ros_message has run both loops without an
\* exception, the ids of self.browsers are the ids of the snapshot.
C1_Convergence ==
    \A t \in Threads :
        AtReturn(t) => DOMAIN browsers = snapshot_ids[t]

\* C2 (Mutual exclusion): at most one thread is inside the `with self.lock`
\* block of handle_ros_message, and the lock is held while one is.
C2_MutualExclusion ==
    /\ Cardinality({t \in Threads : pc[t] = "locked"}) <= 1
    /\ \A t \in Threads : pc[t] = "locked" => lock

\* C2 witness: a thread is between two steps of its loops while the other
\* thread waits for the lock.
C2_Witness ==
    \E t, u \in Threads :
        /\ pc[t] = "locked" /\ log[t] # <<>> /\ ~AtReturn(t)
        /\ pc[u] = "waiting"

\* C3 (URL-identity preservation): a browser tracked under id a whose
\* stripped url a snapshot gives under another id b (a not in the snapshot, b
\* not in the pool) is not closed, and is tracked under b after the call.
C3_UrlIdentityPreservation ==
    \A t \in Threads :
        AtReturn(t) =>
            \A a \in DOMAIN start[t] \ DOMAIN incoming_browsers[t] :
                \A b \in DOMAIN incoming_browsers[t] \ DOMAIN start[t] :
                    StripRosInstanceName(start[t][a].url) = incoming_browsers[t][b].url
                    => /\ start[t][a].h \notin closed
                       /\ b \in DOMAIN browsers
                       /\ browsers[b].h = start[t][a].h

\* C4 (Idempotence): a call that reconciles the snapshot of the call before
\* it closes nothing and creates nothing.
C4_Idempotence ==
    \A t \in Threads :
        (pc[t] = "locked" /\ repeat[t].on) => log[t] = <<>>

\* C5 (Empty-snapshot teardown): when handle_ros_message has run both loops
\* on the empty snapshot, every browser the pool tracked has been closed and
\* self.browsers is empty.
C5_EmptySnapshotTeardown ==
    \A t \in Threads :
        (AtReturn(t) /\ snapshot_ids[t] = {}) =>
            /\ browsers = EmptyDict
            /\ \A i \in DOMAIN start[t] :
                /\ start[t][i].h \in closed
                /\ start[t][i].h \in Logged(t, "close")

\* C5 witness: the empty snapshot has been reconciled against a pool of two.
C5_Witness ==
    \E t \in Threads :
        /\ AtReturn(t) /\ snapshot_ids[t] = {}
        /\ Cardinality(DOMAIN start[t]) = 2

\* C6 (Geometry re-apply): after the call, a browser tracked under an id the
\* snapshot gives with the same url has the geometry of the snapshot.
C6_GeometryReapplied ==
    \A t \in Threads :
        AtReturn(t) =>
            \A i \in SameUrlIds(t) :
                /\ i \in DOMAIN browsers
                /\ browsers[i].geometry = incoming_browsers[t][i].geometry

\* C7 (No unnecessary restart): throughout a call, a browser tracked under an
\* id the snapshot gives with the same url is not closed, no browser is
\* created for its id, and the pool still tracks the same object under the id.
C7_NoUnnecessaryRestart ==
    \A t \in Threads :
        pc[t] = "locked" =>
            \A i \in SameUrlIds(t) :
                /\ i \in DOMAIN browsers
                /\ browsers[i].h = start[t][i].h
                /\ start[t][i].h \notin closed
                /\ \A k \in DOMAIN log[t] : log[t][k].id # i

\* C7 witness: a call has ended that kept such a browser while it closed or
\* created another.
C7_Witness ==
    \E t \in Threads :
        /\ AtReturn(t)
        /\ SameUrlIds(t) # {}
        /\ log[t] # <<>>

\* C8 (URL change is a navigation): after the call, a browser tracked under an
\* id the snapshot gives with another url is the same object, not closed,
\* with the url of the snapshot and the correlation parameter.
C8_UrlChangeIsNavigation ==
    \A t \in Threads :
        AtReturn(t) =>
            \A i \in ChangedUrlIds(t) :
                /\ i \in DOMAIN browsers
                /\ browsers[i].h = start[t][i].h
                /\ start[t][i].h \notin closed
                /\ StripRosInstanceName(browsers[i].url) = incoming_browsers[t][i].url

\* C9 (Create post-state): after the call, each fresh item of the snapshot
\* is tracked under its id by an object constructed in the call, whose url is
\* the item's with ros_instance_name=<type_key>__<viewport>__<id> appended,
\* whose geometry is the item's and whose state is VISIBLE.
C9_CreatePostState ==
    \A t \in Threads :
        AtReturn(t) =>
            \A i \in FreshItemIds(t) :
                /\ i \in DOMAIN browsers
                /\ \E sep \in {"?", "&"} :
                    browsers[i].url =
                        incoming_browsers[t][i].url
                        \o <<sep, "ros_instance_name=", "adhoc", "__", "center", "__", i>>
                /\ browsers[i].geometry = incoming_browsers[t][i].geometry
                /\ browsers[i].state = "VISIBLE"
                /\ browsers[i].h \in Logged(t, "create")
                /\ browsers[i].h \notin closed
                /\ \A j \in DOMAIN start[t] : start[t][j].h # browsers[i].h

\* C9 witness: a call has ended that created browsers for two fresh items.
C9_Witness ==
    \E t \in Threads :
        /\ AtReturn(t)
        /\ Cardinality(FreshItemIds(t)) = 2
        /\ Cardinality(Logged(t, "create")) = 2

\* C10 (Remove before create): in the steps of one call, no close and no
\* deletion of a pool entry follows the construction of a browser.
C10_RemoveBeforeCreate ==
    \A t \in Threads :
        \A m, n \in DOMAIN log[t] :
            (m < n /\ log[t][m].op = "create") => log[t][n].op = "create"

\* C10 witness: a call has closed a browser and then created one.
C10_Witness ==
    \E t \in Threads :
        \E m, n \in DOMAIN log[t] :
            /\ m < n
            /\ log[t][m].op = "del"
            /\ log[t][n].op = "create"

\* C11 (Reconcile never raises on a per-instance failure): a call of
\* handle_ros_message that holds the lock leaves it by `return True` alone,
\* with both loops run to their end: a failing close() or constructor is not
\* propagated and the rest of the batch is still removed and created.
C11_FailureNotPropagated ==
    [][\A t \in Threads :
          (pc[t] = "locked" /\ pc'[t] # "locked") => AtReturn(t)]_vars

\* C12 (Partial failure isolation): when the snapshot holds two tracked
\* instances X and Y at the urls they show and the call returns True, Y's
\* geometry is the snapshot's, whatever update_geometry does for X.
C12_PartialFailureIsolation ==
    \A t \in Threads :
        AtReturn(t) =>
            \A X \in SameUrlIds(t) : \A Y \in SameUrlIds(t) \ {X} :
                /\ Y \in DOMAIN browsers
                /\ browsers[Y].geometry = incoming_browsers[t][Y].geometry

\* C13 (Consistent query): what process_service_request returns is the pool
\* as the last whole call of handle_ros_message left it (or the empty pool
\* of __init__), and no call of handle_ros_message is between its steps
\* while process_service_request holds the lock.
C13_ConsistentQuery ==
    [][(service_pc = "locked" /\ service_pc' = "idle") =>
          /\ str_browsers(browsers) = str_browsers(released)
          /\ \A t \in Threads : pc[t] # "locked"]_vars

\* C13 witness: process_service_request holds the lock over a pool that a
\* call of handle_ros_message has filled, while another call waits.
C13_Witness ==
    /\ service_pc = "locked"
    /\ browsers # EmptyDict
    /\ \E t \in Threads : pc[t] = "waiting"

\* C14 (PoolState invariant): while no call of handle_ros_message holds the
\* lock, each id of self.browsers maps to one object that has been
\* constructed and set VISIBLE and whose close() has not returned, and no
\* two ids map to the same object.
C14_PoolStateInvariant ==
    (\A t \in Threads : pc[t] # "locked") =>
        \A i \in DOMAIN browsers :
            /\ browsers[i].h \in 1..(nextHandle - 1)
            /\ browsers[i].state = VISIBLE
            /\ browsers[i].h \notin closed
            /\ \A j \in DOMAIN browsers \ {i} : browsers[j].h # browsers[i].h

\* C14 witness: between two calls the pool holds two ids, after a browser
\* has been closed.
C14_Witness ==
    /\ \A t \in Threads : pc[t] # "locked"
    /\ Cardinality(DOMAIN browsers) = 2
    /\ closed # {}

\* The ids the call of t has logged with an operation.
LoggedIds(t, op) == {log[t][k].id : k \in {n \in DOMAIN log[t] : log[t][n].op = op}}

\* The pool a call on its own makes of `pool` by the steps `steps`, in their
\* order, for the unpacked snapshot `incoming`.
RECURSIVE Replay(_, _, _)
Replay(pool, steps, incoming) ==
    IF steps = <<>>
    THEN pool
    ELSE LET s == Head(steps)
             after == CASE s.op = "del" -> DelBrowser(pool, s.id)
                        [] s.op = "create" ->
                               PutBrowser(pool, s.id,
                                          NewBrowser(s.h, s.id, incoming[s.id]))
                        [] OTHER -> pool
         IN  Replay(after, Tail(steps), incoming)

\* C15 (Sequential equivalence): a call that holds the lock works as if it
\* ran alone after the call before it: its partition is that of the pool the
\* lock was last released on, the pool is that pool changed by the call's own
\* steps and by nothing else, and at `return True` the call has closed the
\* ids of that pool that are not among existing_ids and created the fresh ids,
\* each once.
C15_SequentialEquivalence ==
    \A t \in Threads :
        pc[t] = "locked" =>
            LET parts == partition_existing_browser_ids(released, incoming_browsers[t])
            IN  /\ start[t] = released
                /\ existing_ids[t] = parts.existing
                /\ fresh_ids[t] = parts.fresh \ LoggedIds(t, "create")
                /\ LoggedIds(t, "close") \subseteq DOMAIN released \ parts.existing
                /\ browsers = Replay(released, log[t], incoming_browsers[t])
                /\ AtReturn(t) =>
                       /\ LoggedIds(t, "close") = DOMAIN released \ parts.existing
                       /\ Len(log[t]) = 2 * Cardinality(DOMAIN released \ parts.existing)
                                            + Cardinality(parts.fresh)

\* C15 witness: a call issued while another call held the lock and changed
\* the pool has taken the lock after it and has run its own steps to the end.
C15_Witness ==
    \E t \in Threads :
        /\ AtReturn(t)
        /\ overtaken[t]
        /\ log[t] # <<>>
        /\ start[t] # EmptyDict

C17_ViewportIndependence ==
    /\ [](\A t \in Threads :
            (pc[t] = "waiting" /\ lock = FALSE) => ENABLED Acquire(t))
    /\ [][/\ <<browsers, lock, pc>>' # <<browsers, lock, pc>> => UNCHANGED others
          /\ others' # others => UNCHANGED <<browsers, lock, pc>>]_vars

\* C17 witness: the calls of the two pools hold their locks at the same time,
\* each having changed its own pool.
C17_Witness ==
    /\ other_pc = "locked"
    /\ other_browsers # {}
    /\ \E t \in Threads : pc[t] = "locked" /\ log[t] # <<>>

\* C18 (Same-URL items in one snapshot): when the call returns True, two ids
\* of the snapshot whose items have the same normalized url are both ids of
\* self.browsers and map to two objects.
C18_SameUrlItems ==
    \A t \in Threads :
        AtReturn(t) =>
            \A i \in DOMAIN incoming_browsers[t] :
                \A j \in DOMAIN incoming_browsers[t] \ {i} :
                    StripRosInstanceName(incoming_browsers[t][i].url)
                        = StripRosInstanceName(incoming_browsers[t][j].url)
                    => /\ i \in DOMAIN browsers
                       /\ j \in DOMAIN browsers
                       /\ browsers[i].h # browsers[j].h

\* C19 (Duplicate id in a snapshot): for an id the snapshot has more than one
\* item for, the call works on the last of its items only: that item is the
\* one in incoming_browsers, the call constructs at most one object for the
\* id, and an object it has constructed for the id shows the url and the
\* geometry of that item.
C19_DuplicateIdLaterWins ==
    \A t \in Threads :
        pc[t] = "locked" =>
            \A i \in DOMAIN overwritten[t] :
                /\ incoming_browsers[t][i] = overwritten[t][i]
                /\ Cardinality({k \in DOMAIN log[t] :
                       log[t][k].op = "create" /\ log[t][k].id = i}) <= 1
                /\ i \in LoggedIds(t, "create") =>
                       /\ i \in DOMAIN browsers
                       /\ browsers[i].h \in Logged(t, "create")
                       /\ StripRosInstanceName(browsers[i].url) = overwritten[t][i].url
                       /\ browsers[i].geometry = overwritten[t][i].geometry

\* C19 witness: a call returns True having constructed a browser for an id
\* whose earlier item in the snapshot differs from its last one.
C19_Witness ==
    \E t \in Threads :
        /\ AtReturn(t)
        /\ \E i \in DOMAIN overwritten[t] : i \in LoggedIds(t, "create")

\* C20 (Stop is terminal and happens once): close() is called on no object
\* it has been called on before, whether that call returned or raised.
C20_StopOnce ==
    [][\A h \in (closed' \ closed) \cup (close_raised' \ close_raised) :
          h \notin closed \cup close_raised]_vars

\* The payload is not valid JSON.
InvalidJson(msg) == msg # NoMsg /\ json_loads(msg.message).raises = "ValueError"

\* C21: a director message whose payload is not valid JSON never reaches a
\* pool: every call of SceneListener's callback and every message published
\* on /image/views stems from a payload that is valid JSON, and the step in
\* which a subscriber handles an invalid payload leaves both as they were.
C21_DecodeErrorsRejected ==
    /\ [](/\ scene_callback # NoMsg => ~InvalidJson(scene_callback.msg)
          /\ image_views # NoMsg => ~InvalidJson(image_views.msg))
    /\ [][(InvalidJson(director_msg) /\ pending # {} /\ pending' # pending)
            => UNCHANGED <<scene_callback, image_views, browsers>>]_vars

\* Both subscribers have handled an invalid payload that followed a valid
\* one: the callback's last call and the last snapshot are the earlier ones.
C21_Witness ==
    /\ InvalidJson(director_msg)
    /\ director_msg.type = "json"
    /\ pending = {}
    /\ master
    /\ scene_callback # NoMsg /\ scene_callback.msg # director_msg
    /\ image_views # NoMsg /\ image_views.msg # director_msg

\* C22: stripping the correlation parameter from the url
\* _add_ros_instance_url_param made of u and the token of an id gives u back,
\* and a pool that tracks the browser created from u takes an item with url
\* u as existing.
C22_NormalizationRoundTrip ==
    stripped_url # NoUrl =>
        /\ stripped_url = arg_url
        /\ browser_exists(PutBrowser(EmptyDict, arg_id, [url |-> injected_url]),
                          [url |-> arg_url])

\* C23: _add_ros_instance_url_param joins the parameter with "?" when the
\* url has no query string and with "&" when it has one, so the query of
\* the result holds ros_instance_name=<token>.
C23_SeparatorChoice ==
    injected_url # NoUrl =>
        LET token == get_ros_instance_id(arg_id)
            sep == IF UrlQuery(arg_url).value = <<>> THEN "?" ELSE "&"
            query == UrlQuery(injected_url).value
        IN  /\ injected_url = arg_url \o <<sep, "ros_instance_name=">> \o token
            /\ \E i \in DOMAIN query :
                   SubSeq(query, i, Len(query)) = <<"ros_instance_name=">> \o token

\* C24: _update_browser calls update_url only when the incoming url differs
\* from the tracked browser's url with the correlation parameter stripped;
\* when the two are equal it issues no url update and re-applies the
\* geometry only.
C24_UrlUpdateOnlyOnChange ==
    [][update' # update =>
          LET same == StripRosInstanceName(browsers[update'.id].url) = update'.url
          IN  /\ update'.update_url # "skipped" => ~same
              /\ same => /\ update'.update_url = "skipped"
                         /\ update'.update_geometry # "skipped"
                         /\ browsers'[update'.id].url = browsers[update'.id].url]_vars

\* C25: when update_url raises, update_geometry is still attempted for the
\* same browser; when update_geometry raises, _update_browser still returns;
\* neither failure leaves the call as an exception or takes the browser out
\* of the pool.
C25_FieldLevelIsolation ==
    [][update' # update =>
          /\ update'.update_url = "raise" => update'.update_geometry # "skipped"
          /\ update'.returned
          /\ update'.id \in DOMAIN browsers'
          /\ browsers'[update'.id].h = browsers[update'.id].h
          /\ DOMAIN browsers' = DOMAIN browsers]_vars

\* Both update_url and update_geometry have raised in one call, which has
\* returned with the browser in the pool.
C25_Witness ==
    /\ update # NoMsg
    /\ update.update_url = "raise"
    /\ update.update_geometry = "raise"
    /\ update.returned
    /\ update.id \in DOMAIN browsers

\* The objects self.browsers refers to.
Referenced == {browsers[i].h : i \in DOMAIN browsers}

\* The objects constructed so far.
ConstructedObjects == 1..(nextHandle - 1)

\* C26: whenever no call of handle_ros_message is under way, every browser
\* that was constructed and not closed is referenced by self.browsers, and
\* _create_browser never stores a browser under an id whose entry holds a
\* browser that has not been closed.
C26_NoOrphanedBrowser ==
    /\ [](lock = FALSE => \A h \in ConstructedObjects : h \in closed \/ h \in Referenced)
    /\ [][\A i \in DOMAIN browsers :
            (i \in DOMAIN browsers' /\ browsers'[i].h # browsers[i].h)
                => browsers[i].h \in closed]_vars

\* The tracked entries that have the url and the geometry of image.
Tracked(image) ==
    {e \in current_images : e.image.url = image.url /\ e.image.geometry = image.geometry}

\* C27: after _handle_image_views(msg) has returned, current_images tracks
\* one running process of its own for each image of msg whose viewport is
\* the viewer's and nothing else, and every process tracked before that no
\* image of msg has the url and the geometry of is STOPPED.
C27_ImagePoolConvergence ==
    [][(views' # views /\ views'.returned) =>
          LET images == views'.images
          IN  /\ \A i \in Relevant(images) :
                    \E e \in current_images' : /\ e.image = images[i]
                                               /\ e.obj \in image_started' \ image_stopped'
              /\ Cardinality(current_images') = Cardinality(Relevant(images))
              /\ \A e, f \in current_images' : e.obj = f.obj => e = f
              /\ \A e \in current_images' : e.image.viewport \in viewports
              /\ \A e \in current_images :
                    (\A i \in DOMAIN images :
                        \/ images[i].url # e.image.url
                        \/ images[i].geometry # e.image.geometry)
                      => e.obj \in image_stopped']_vars

\* C28: an image of the message that has the url and the geometry of a
\* tracked image keeps a process tracked for them: after the call that
\* process is tracked under the image of the message, and the call has
\* neither stopped it nor made a process in its place.
C28_ImageRetention ==
    [][views' # views =>
          \A i \in Relevant(views'.images) :
              Tracked(views'.images[i]) # {} =>
                  \E e \in Tracked(views'.images[i]) :
                      /\ [image |-> views'.images[i], obj |-> e.obj] \in current_images'
                      /\ e.obj \in image_stopped' => e.obj \in image_stopped]_vars

\* C29: after every call of handle_image_views, however it ended, no process
\* in current_images has been stopped, and every process that was started
\* and not stopped is in current_images.
C29_TracksLiveProcesses ==
    /\ \A e \in current_images : e.obj \notin image_stopped
    /\ \A p \in image_started \ image_stopped : \E e \in current_images : e.obj = p

\* C30: a tick publishes a scene or takes an item off attract_loop_queue only
\* when the last activity message had data False (play_loop is True) and
\* scene_timer <= 0; while the last activity message had data True, and
\* before any activity message, no tick publishes or removes anything.
C30_PlaysOnlyWhileInactive ==
    [][(published' # published \/ Len(attract_loop_queue') < Len(attract_loop_queue))
          => /\ last_activity = "False"
             /\ play_loop = "True"
             /\ scene_timer <= 0]_vars

\* C31: a scene is published no earlier than the d-th tick after the tick
\* that published the scene before it, d >= 1 being that scene's duration:
\* none of the d-1 ticks in between publishes, whatever activity messages
\* were handled in between.
C31_HonoursSceneDuration ==
    (published # NoMsg /\ published.previous >= 1) => published.ticks >= published.previous

\* A scene of duration 3 was followed by the next scene on the third tick
\* after it, with an activity message handled in between.
C31_Witness ==
    /\ published # NoMsg
    /\ published.previous = 3
    /\ published.ticks = 3
    /\ published.activity
====
